---- MODULE Spec2Model ----
(***************************************************************************)
(* The interrupt-aware streaming run loop of test_pipeline.py              *)
(* (run_with_streaming_and_interrupt, check_for_interrupt) and the result  *)
(* extraction of main(), driven against a nondeterministic workflow        *)
(* engine (graph.astream / graph.aget_state) whose checkpoint store is     *)
(* partitioned by thread_id.                                               *)
(*                                                                         *)
(* Python strings are sequences of one-character strings, so that          *)
(* str.strip(), emptiness and equality are computed, not assumed.          *)
(* Python values that may be a dict, a str or None are tagged records.     *)
(***************************************************************************)
EXTENDS Integers, Sequences, FiniteSets, TLC

\* ------------------------------------------------------------- bounds
MaxPasses == 3        \* engine passes of one run (fresh pass + resumes)
MaxTasks == 2         \* pending tasks in one ThreadState
MaxInterrupts == 2    \* interrupts carried by one pending task

Threads == {1, 2}     \* thread_ids known to the checkpoint store

\* ------------------------------------------------------------- values
PyNone == [kind |-> "none"]
PyStr(s) == [kind |-> "str", s |-> s]
PyDict(d) == [kind |-> "dict", d |-> d]
PyObject(d) == [kind |-> "object", d |-> d]
PyOther == [kind |-> "other"]

EmptyDict == [k \in {} |-> <<>>]

IsDict(v) == v.kind = "dict"

\* Python truthiness of None, str and dict values (lines 143, 157, 267).
Truthy(v) ==
    CASE v.kind = "none" -> FALSE
      [] v.kind = "str" -> Len(v.s) > 0
      [] v.kind = "dict" -> DOMAIN v.d # {}
      [] OTHER -> TRUE

\* The character that marks a text as produced for thread t.
Tag(t) == IF t = 1 THEN "1" ELSE "2"

IsSpace(c) == c = " "

\* str.strip(): drop leading and trailing whitespace (line 163).
RECURSIVE LStrip(_)
LStrip(s) == IF s # <<>> /\ IsSpace(Head(s)) THEN LStrip(Tail(s)) ELSE s

RECURSIVE RStrip(_)
RStrip(s) ==
    IF s # <<>> /\ IsSpace(s[Len(s)]) THEN RStrip(SubSeq(s, 1, Len(s) - 1)) ELSE s

Strip(s) == RStrip(LStrip(s))

\* ------------------------------------------------------------- menus
\* What the engine and the environment may hand to the run of thread t.

TypeA == <<"A">>
TypeB == <<"B">>
Unknown == <<"u", "n", "k", "n", "o", "w", "n">>

Question(t) == <<"q", Tag(t)>>

\* Interrupt payloads a stage may raise (Interrupt.value).
Payloads(t) ==
    { PyDict([type |-> TypeA, question |-> Question(t)]),
      PyDict([type |-> TypeB, question |-> Question(t)]),
      PyDict([question |-> Question(t)]),
      PyDict(EmptyDict),
      PyStr(<<"s", Tag(t)>>),
      PyStr(<<>>),
      PyNone }

\* Payloads of the interrupts that follow the first pending one.
LaterPayloads(t) ==
    { PyDict([type |-> TypeB, question |-> Question(t)]) }

SmallPayloads(t) ==
    { PyDict([type |-> TypeA, question |-> Question(t)]),
      PyDict([type |-> TypeB, question |-> Question(t)]),
      PyStr(<<"s", Tag(t)>>) }

Interrupt(v) == [value |-> v]
Task(is) == [interrupts |-> is]

SeqsUpTo(S, n) == UNION { [1..k -> S] : k \in 0..n }

Flatten(tasks) ==
    LET F[i \in 0..Len(tasks)] ==
            IF i = 0 THEN <<>> ELSE F[i - 1] \o tasks[i].interrupts
    IN F[Len(tasks)]

Pending(tasks) == Flatten(tasks)

HasPending(tasks) == Pending(tasks) # <<>>

FirstCarrying(tasks) ==
    CHOOSE i \in 1..Len(tasks) :
        /\ tasks[i].interrupts # <<>>
        /\ \A j \in 1..(i - 1) : tasks[j].interrupts = <<>>

WithFirst(tasks, v) ==
    [tasks EXCEPT ![FirstCarrying(tasks)].interrupts[1] = Interrupt(v)]

\* Task lists the engine may leave behind at the end of a pass: at most
\* ntasks tasks with at most nints interrupts each; the first pending
\* interrupt carries any payload of first, the ones after it one of later.
TaskConfigs(first, later, ntasks, nints) ==
    LET tasksets == { Task(is) : is \in SeqsUpTo({Interrupt(v) : v \in later}, nints) }
        lists == SeqsUpTo(tasksets, ntasks)
    IN { ts \in lists : ~HasPending(ts) }
       \cup { WithFirst(ts, v) : ts \in { l \in lists : HasPending(l) }, v \in first }

\* The dict passed as auto_responses (None: interactive mode).
AutoResponses(t) ==
    { PyNone,
      PyDict(TypeA :> <<" ", "a", Tag(t), " ">>),
      PyDict(TypeA :> <<" ", "a", Tag(t), " ">> @@ TypeB :> <<"b", Tag(t)>>
             @@ Unknown :> <<"k", Tag(t)>>) }

\* Texts typed at the input() prompt.
Inputs(t) == { <<" ">>, <<" ", "u", Tag(t), " ">> }

\* node_output of one streamed event: the tuple of an "__interrupt__" event,
\* a dict update, or an update a stage returned as a non-dict object.
NodeOutputs(t) ==
    { PyOther,
      PyObject([final_report |-> <<"y", Tag(t)>>]),
      PyDict([research_brief |-> <<"r", Tag(t)>>]),
      PyDict([final_report |-> <<>>]),
      PyDict([final_report |-> <<"x", Tag(t)>>]),
      PyDict([final_report |-> <<"y", Tag(t)>>]) }

SmallNodeOutputs(t) ==
    { PyDict([research_brief |-> <<"r", Tag(t)>>]),
      PyDict([final_report |-> <<"x", Tag(t)>>]) }

\* Exceptions the engine may raise while streaming.
Exceptions(t) ==
    { [type |-> "GraphRecursionError", msg |-> <<"e", Tag(t)>>],
      [type |-> "RuntimeError", msg |-> <<"e", Tag(t)>>] }

\* ------------------------------------------------------------- state
VARIABLES
    store,           \* engine: thread_id -> [present, values, tasks]
    budget,          \* thread_id -> what the engine may do for that run
    pc,              \* thread_id -> position of the run's control flow
    auto_responses,  \* thread_id -> auto_responses argument of the run
    current_input,   \* thread_id -> input of the next/current astream call
    final_result,    \* thread_id -> final_result of the run loop
    interrupt_info,  \* thread_id -> result of the last check_for_interrupt
    outcome,         \* thread_id -> what the run loop delivered to main()
    final_report,    \* thread_id -> final_report local of main()
    passes,          \* thread_id -> astream calls started so far
    exit,            \* thread_id -> branch through which the loop was left
    trace            \* thread_id -> observations of the run (history)

vars == <<store, budget, pc, auto_responses, current_input, final_result,
          interrupt_info, outcome, final_report, passes, exit, trace>>

\* ------------------------------------------------------------- engine
\* Every run is started with the same thread_id.
thread_id_shared(t) == 1

\* The thread_id in the thread_config a run passes to astream and aget_state
\* (lines 95, 141, 251, 271): each run uses its own.
thread_id(t) == t

\* graph.aget_state(thread_config): the snapshot of that thread_id, None
\* when the checkpoint store has no record of it.
Snapshot(rec) == [kind |-> "snapshot", d |-> rec]

aget_state(st, t) == IF st[t].present THEN Snapshot(st[t]) ELSE PyNone

\* The plain non-streaming invocation returns the final ThreadState.values;
\* this is the final_report in it (None when the field was never written).
InvokeReport(values) ==
    IF "final_report" \in DOMAIN values THEN PyStr(values.final_report) ELSE PyNone

\* How the engine folds one stage update into ThreadState.values: a field
\* written by a stage overwrites the stored one.
EngineMerge(values, out) ==
    IF out.kind \in {"dict", "object"} THEN out.d @@ values ELSE values

\* ------------------------------------------------------------- detector
NotFound == [kind |-> "notfound"]

HasAttr(obj, name) == name \in DOMAIN obj

\* The last interrupt of the list is returned instead of the first.
ScanInterruptsLast(is) ==
    IF is = <<>> THEN NotFound ELSE is[Len(is)].value

\* Lines 66-68: the first interrupt of the list that has a value.
RECURSIVE ScanInterrupts(_)
ScanInterrupts(is) ==
    IF is = <<>> THEN NotFound
    ELSE IF HasAttr(Head(is), "value") THEN Head(is).value
    ELSE ScanInterrupts(Tail(is))

\* Lines 64-68: tasks in order; a task without interrupts is skipped.
RECURSIVE ScanTasks(_)
ScanTasks(tasks) ==
    IF tasks = <<>> THEN NotFound
    ELSE LET task == Head(tasks)
             found == IF HasAttr(task, "interrupts") /\ task.interrupts # <<>>
                      THEN ScanInterrupts(task.interrupts)
                      ELSE NotFound
         IN IF found # NotFound THEN found ELSE ScanTasks(Tail(tasks))

\* A missing snapshot is reported as an error text instead of None.
check_for_interrupt_AbsentIsError(state) ==
    IF Truthy(state)
    THEN LET found == ScanTasks(state.d.tasks)
         IN IF found = NotFound THEN PyNone ELSE found
    ELSE PyStr(<<"n", "o">>)

\* check_for_interrupt, given the snapshot aget_state returned.
check_for_interrupt(state) ==
    IF Truthy(state) /\ state.d.tasks # <<>>
    THEN LET found == ScanTasks(state.d.tasks)
         IN IF found = NotFound THEN PyNone ELSE found
    ELSE PyNone

\* ------------------------------------------------------------- run loop
Fresh == [kind |-> "fresh"]

\* The response is dropped and the fresh input is submitted again.
CommandResubmitsFresh(resume) == Fresh

Command(resume) == [kind |-> "resume", resume |-> resume]

\* The type key is never found: every lookup uses "unknown".
InterruptTypeLost(info) == Unknown

\* Line 154: interrupt_info.get("type", "unknown").
InterruptType(info) == IF "type" \in DOMAIN info.d THEN info.d.type ELSE Unknown

\* Line 157: auto_responses and interrupt_type in auto_responses.
HasAutoResponse(responses, info) ==
    Truthy(responses) /\ InterruptType(info) \in DOMAIN responses.d

\* The mapped string is stripped like a typed one.
AutoResponseStripped(responses, info) == Strip(responses.d[InterruptType(info)])

\* Line 158.
AutoResponse(responses, info) == responses.d[InterruptType(info)]

\* The typed text is used as typed.
InteractiveResponseUnstripped(text) == text

\* Line 163: input(">>> ").strip().
InteractiveResponse(text) == Strip(text)

\* The else branch of line 173 asks for input instead of leaving the loop.
LoopBranchAsksOnNone(info, responses) ==
    IF Truthy(info)
    THEN IF IsDict(info)
         THEN IF HasAutoResponse(responses, info) THEN "auto" ELSE "input"
         ELSE "unresolvable"
    ELSE "input"

\* Lines 143-175: where the loop goes after detection.
LoopBranch(info, responses) ==
    IF Truthy(info)
    THEN IF IsDict(info)
         THEN IF HasAutoResponse(responses, info) THEN "auto" ELSE "input"
         ELSE "unresolvable"
    ELSE "completed"

\* The key alone decides: an empty final_report is tracked as well.
TrackResultAnyReport(result, out) ==
    IF IsDict(out) /\ "final_report" \in DOMAIN out.d
    THEN out
    ELSE result

\* Once a report is tracked, later reports no longer replace it.
TrackResultFirst(result, out) ==
    IF result = PyNone /\ IsDict(out) /\ "final_report" \in DOMAIN out.d
       /\ Truthy(PyStr(out.d.final_report))
    THEN out
    ELSE result

\* Lines 134-136: the tracked final_result after one node_output.
TrackResult(result, out) ==
    IF IsDict(out) /\ "final_report" \in DOMAIN out.d
       /\ Truthy(PyStr(out.d.final_report))
    THEN out
    ELSE result

\* ------------------------------------------------------------- main
\* The fallback to the persisted state is missing.
ExtractReportNoFallback(result, state) ==
    IF Truthy(result) /\ "final_report" \in DOMAIN result.d
    THEN PyStr(result.d.final_report)
    ELSE PyNone

\* Lines 265-273: final_report from the returned result, else from the
\* persisted state.
ExtractReport(result, state) ==
    IF Truthy(result) /\ "final_report" \in DOMAIN result.d
    THEN PyStr(result.d.final_report)
    ELSE IF Truthy(state) /\ DOMAIN state.d.values # {}
            /\ "final_report" \in DOMAIN state.d.values
         THEN PyStr(state.d.values.final_report)
         ELSE PyNone

\* ------------------------------------------------------------- history
\* trace[t].reported: an event of the current pass carried a non-empty
\*   final_report.
\* trace[t].last: the node_output of the last event of the run, in any
\*   pass, that was a map with a non-empty final_report; None if none was.
\* trace[t].typed: the text last typed at the input() prompt.
\* trace[t].single: so far every pass of the run left at most one pending
\*   interrupt, and that one was a map with a type.
\* trace[t].raised / answered: while single, the types of the interrupts
\*   raised, and the interrupts answered with the response sent.
NoTrace ==
    [reported |-> FALSE, last |-> PyNone, typed |-> <<>>, single |-> TRUE,
     raised |-> <<>>, answered |-> <<>>]

CarriesReport(out) ==
    /\ out.kind = "dict"
    /\ "final_report" \in DOMAIN out.d
    /\ Len(out.d.final_report) > 0

IsTyped(v) == IsDict(v) /\ "type" \in DOMAIN v.d

AfterPass(tr, tasks) ==
    LET p == Pending(tasks)
    IN IF p = <<>> THEN tr
       ELSE IF tr.single /\ Len(p) = 1 /\ IsTyped(p[1].value)
            THEN [tr EXCEPT !.raised = Append(@, p[1].value.d.type)]
            ELSE [tr EXCEPT !.single = FALSE, !.raised = <<>>, !.answered = <<>>]

AfterAnswer(tr, info, response) ==
    IF tr.single
    THEN [tr EXCEPT !.answered =
             Append(@, [type |-> IF IsDict(info) THEN InterruptType(info) ELSE Unknown,
                        response |-> response])]
    ELSE tr

\* ------------------------------------------------------------- budgets
RichBudget == [passes |-> MaxPasses, rich |-> TRUE]
LeanBudget == [passes |-> MaxPasses - 1, rich |-> FALSE]
NoBudget == [passes |-> 0, rich |-> FALSE]

RichConfigs ==
    [t \in Threads |->
        TaskConfigs(Payloads(t), LaterPayloads(t), MaxTasks, MaxInterrupts)]

LeanConfigs ==
    [t \in Threads |-> TaskConfigs(SmallPayloads(t), {PyStr(<<>>)}, 1, 1)]

\* The engine raises interrupts only while the run may start another pass.
Configs(t) ==
    LET all == IF budget[t].rich THEN RichConfigs[t] ELSE LeanConfigs[t]
    IN IF passes[t] < budget[t].passes THEN all
       ELSE { ts \in all : ~HasPending(ts) }

Outputs(t) == IF budget[t].rich THEN NodeOutputs(t) ELSE SmallNodeOutputs(t)

Typed(t) == IF budget[t].rich THEN Inputs(t) ELSE { <<" ", "u", Tag(t)>> }

NoThreadState == [present |-> FALSE, values |-> EmptyDict, tasks |-> <<>>]

\* ------------------------------------------------------------- init
\* Lines 88-89 and 265, with an engine that has no record of any thread.
InitWith(responses, b) ==
    /\ budget = b
    /\ auto_responses = responses
    /\ pc = [t \in Threads |-> IF b[t].passes = 0 THEN "idle" ELSE "submit"]
    /\ store = [t \in Threads |-> NoThreadState]
    /\ current_input = [t \in Threads |-> Fresh]
    /\ final_result = [t \in Threads |-> PyNone]
    /\ interrupt_info = [t \in Threads |-> PyNone]
    /\ outcome = [t \in Threads |-> [kind |-> "running"]]
    /\ final_report = [t \in Threads |-> PyNone]
    /\ passes = [t \in Threads |-> 0]
    /\ exit = [t \in Threads |-> "none"]
    /\ trace = [t \in Threads |-> NoTrace]

\* One run, on thread_id 1 ("test-1" of main); thread_id 2 is never started.
Init ==
    \E r \in AutoResponses(1) :
        InitWith([t \in Threads |-> IF t = 1 THEN r ELSE PyNone],
                 [t \in Threads |-> IF t = 1 THEN RichBudget ELSE NoBudget])

\* Two runs on distinct thread_ids, driven concurrently.
InitConc ==
    InitWith([t \in Threads |-> PyDict(TypeA :> <<" ", "a", Tag(t)>>)],
             [t \in Threads |-> LeanBudget])

\* ------------------------------------------------------------- actions
\* Line 93: graph.astream(current_input, config=thread_config) is entered;
\* the engine takes the input and the pending tasks start running.
StartPass(t) ==
    /\ pc[t] = "submit"
    /\ pc' = [pc EXCEPT ![t] = "stream"]
    /\ store' = [store EXCEPT ![thread_id(t)].tasks = <<>>]
    /\ passes' = [passes EXCEPT ![t] = @ + 1]
    /\ trace' = [trace EXCEPT ![t].reported = FALSE]
    /\ UNCHANGED <<budget, auto_responses, current_input, final_result,
                   interrupt_info, outcome, final_report, exit>>

\* Lines 93-138: the engine yields one event; the loop body inspects its
\* node_output and tracks final_result.
StreamEvent(t) ==
    /\ pc[t] = "stream"
    /\ \E out \in Outputs(t) :
        /\ store' = [store EXCEPT ![thread_id(t)].values = EngineMerge(@, out)]
        /\ final_result' = [final_result EXCEPT ![t] = TrackResult(@, out)]
        /\ trace' = [trace EXCEPT ![t].reported =
                        @ \/ TrackResult(PyNone, out) # PyNone,
                                  ![t].last =
                        IF CarriesReport(out) THEN out ELSE @]
    /\ UNCHANGED <<budget, pc, auto_responses, current_input, interrupt_info,
                   outcome, final_report, passes, exit>>

\* Line 93: the engine's sequence is exhausted; it has checkpointed the
\* thread, with the tasks (and their interrupts) that are still pending.
StreamEnd(t) ==
    /\ pc[t] = "stream"
    /\ \E ts \in Configs(t) :
        /\ store' = [store EXCEPT ![thread_id(t)].tasks = ts,
                                ![thread_id(t)].present = TRUE]
        /\ trace' = [trace EXCEPT ![t] = AfterPass(@, ts)]
    /\ pc' = [pc EXCEPT ![t] = "detect"]
    /\ UNCHANGED <<budget, auto_responses, current_input, final_result,
                   interrupt_info, outcome, final_report, passes, exit>>

\* Line 93: the engine's sequence is exhausted and the engine kept no
\* record of the thread.
StreamEndNoState(t) ==
    /\ pc[t] = "stream"
    /\ ~store[thread_id(t)].present
    /\ store[thread_id(t)].values = EmptyDict
    /\ pc' = [pc EXCEPT ![t] = "detect"]
    /\ UNCHANGED <<store, budget, auto_responses, current_input, final_result,
                   interrupt_info, outcome, final_report, passes, exit,
                   trace>>

\* The exception is swallowed around the stream and the loop goes on to
\* detection.
StreamRaiseSwallowed(t) ==
    /\ pc[t] = "stream"
    /\ pc' = [pc EXCEPT ![t] = "detect"]
    /\ exit' = [exit EXCEPT ![t] = "exception"]
    /\ UNCHANGED <<store, budget, auto_responses, current_input, final_result,
                   interrupt_info, outcome, final_report, passes, trace>>

\* Lines 93-97 with 253-292: astream raises; nothing in the loop catches
\* it, so it leaves run_with_streaming_and_interrupt and reaches main's
\* except clause.
StreamRaise(t) ==
    /\ pc[t] = "stream"
    /\ \E e \in Exceptions(t) : outcome' = [outcome EXCEPT ![t] = [kind |-> "raise", exc |-> e]]
    /\ pc' = [pc EXCEPT ![t] = "failed"]
    /\ exit' = [exit EXCEPT ![t] = "exception"]
    /\ UNCHANGED <<store, budget, auto_responses, current_input, final_result,
                   interrupt_info, final_report, passes, trace>>

\* Lines 141-177: detection, and the branch the loop takes on its result.
Detect(t) ==
    /\ pc[t] = "detect"
    /\ LET info == check_for_interrupt(aget_state(store, thread_id(t)))
           branch == LoopBranch(info, auto_responses[t])
       IN /\ interrupt_info' = [interrupt_info EXCEPT ![t] = info]
          /\ CASE branch = "auto" ->
                    LET user_response == AutoResponse(auto_responses[t], info)
                    IN /\ current_input' = [current_input EXCEPT ![t] = Command(user_response)]
                       /\ trace' = [trace EXCEPT ![t] = AfterAnswer(@, info, user_response)]
                       /\ pc' = [pc EXCEPT ![t] = "submit"]
                       /\ UNCHANGED <<outcome, exit>>
               [] branch = "input" ->
                    /\ pc' = [pc EXCEPT ![t] = "input"]
                    /\ UNCHANGED <<current_input, trace, outcome, exit>>
               [] OTHER ->
                    /\ pc' = [pc EXCEPT ![t] = "returned"]
                    /\ exit' = [exit EXCEPT ![t] = branch]
                    /\ outcome' = [outcome EXCEPT ![t] =
                                      [kind |-> "return", value |-> final_result[t]]]
                    /\ UNCHANGED <<current_input, trace>>
    /\ UNCHANGED <<store, budget, auto_responses, final_result, final_report,
                   passes>>

\* Lines 162-168: the text typed at the prompt, stripped, becomes the
\* resume command.
ProvideInput(t) ==
    /\ pc[t] = "input"
    /\ \E text \in Typed(t) :
        LET user_response == InteractiveResponse(text)
        IN /\ current_input' = [current_input EXCEPT ![t] = Command(user_response)]
           /\ trace' = [trace EXCEPT ![t] =
                           AfterAnswer([@ EXCEPT !.typed = text],
                                       interrupt_info[t], user_response)]
    /\ pc' = [pc EXCEPT ![t] = "submit"]
    /\ UNCHANGED <<store, budget, auto_responses, final_result, interrupt_info,
                   outcome, final_report, passes, exit>>

\* Extraction discards the tasks still pending in the persisted state.
ExtractClearsTasks(t) ==
    /\ pc[t] = "returned"
    /\ final_report' = [final_report EXCEPT ![t] =
                           ExtractReport(outcome[t].value, aget_state(store, thread_id(t)))]
    /\ pc' = [pc EXCEPT ![t] = "done"]
    /\ store' = [store EXCEPT ![thread_id(t)].tasks = <<>>]
    /\ UNCHANGED <<budget, auto_responses, current_input, final_result,
                   interrupt_info, outcome, passes, exit, trace>>

\* Lines 254-273: main takes the returned result and extracts the report.
Extract(t) ==
    /\ pc[t] = "returned"
    /\ final_report' = [final_report EXCEPT ![t] =
                           ExtractReport(outcome[t].value, aget_state(store, thread_id(t)))]
    /\ pc' = [pc EXCEPT ![t] = "done"]
    /\ UNCHANGED <<store, budget, auto_responses, current_input, final_result,
                   interrupt_info, outcome, passes, exit, trace>>

Next ==
    \E t \in Threads :
        \/ StartPass(t)
        \/ StreamEvent(t)
        \/ StreamEnd(t)
        \/ StreamEndNoState(t)
        \/ StreamRaise(t)
        \/ Detect(t)
        \/ ProvideInput(t)
        \/ Extract(t)

Spec == Init /\ [][Next]_vars

SpecConc == InitConc /\ [][Next]_vars

\* One run on thread_id 1 against the small engine menus.
InitLean ==
    \E r \in AutoResponses(1) :
        InitWith([t \in Threads |-> IF t = 1 THEN r ELSE PyNone],
                 [t \in Threads |-> IF t = 1 THEN [RichBudget EXCEPT !.rich = FALSE]
                                             ELSE NoBudget])

\* Scheduling of one run: the cooperative control flow keeps going (an
\* astream call that is due is made, detection and extraction run), and
\* every engine pass is finite: it ends or raises.  Nothing forces text to
\* arrive at the input() prompt.
Fairness ==
    \A t \in Threads :
        /\ WF_vars(StartPass(t))
        /\ WF_vars(StreamEnd(t) \/ StreamEndNoState(t) \/ StreamRaise(t))
        /\ WF_vars(Detect(t))
        /\ WF_vars(Extract(t))

FairSpec == InitLean /\ [][Next]_vars /\ Fairness

\* ------------------------------------------------------------- run states
\* The states of the run loop's state machine, read off the control flow.
Running(t) == pc[t] \in {"submit", "stream", "detect"}
AwaitingInput(t) == pc[t] = "input"
Completed(t) == pc[t] \in {"returned", "done"} /\ exit[t] = "completed"
Aborted(t) == pc[t] \in {"returned", "done"} /\ exit[t] = "unresolvable"
Failed(t) == pc[t] = "failed"

\* The astream call of line 93 is about to be made, or is being consumed,
\* with a resume command as its input.
ResumePass(t) == pc[t] \in {"submit", "stream"} /\ current_input[t].kind = "resume"

\* ------------------------------------------------------------- claims

\* C1: a resume command is handed to the engine only when the detection
\* made immediately before it, on the same thread_id, returned an interrupt:
\* the last detection result is not None, and while the command is being
\* submitted it is the first pending interrupt of that thread's own state.
C1_ResumeOnlyAfterInterrupt ==
    \A t \in Threads :
        /\ ResumePass(t) => interrupt_info[t] # PyNone
        /\ pc[t] = "submit" /\ current_input[t].kind = "resume" =>
              /\ HasPending(store[t].tasks)
              /\ interrupt_info[t] = Pending(store[t].tasks)[1].value

C1_Witness ==
    \E t \in Threads :
        pc[t] = "stream" /\ current_input[t].kind = "resume" /\ passes[t] = 2

\* C2 (as stated): after a streaming pass in which some event carried a
\* non-empty final_report the loop is COMPLETED and stops, whatever
\* ThreadState reports: it neither resumes, asks for input nor aborts.
C2_StopsAfterReport ==
    \A t \in Threads :
        trace[t].reported /\ pc[t] \notin {"stream", "detect", "failed"} => Completed(t)

\* C2 (amended): after such a pass the loop still runs detection; it is
\* COMPLETED exactly when detection returned nothing truthy; a pending
\* non-empty map makes it resume (or ask for input) and a pending truthy
\* non-map makes it abort; the tracked final_result is kept in every case.
C2_StopsUnlessInterrupted ==
    \A t \in Threads :
        trace[t].reported /\ pc[t] \notin {"stream", "detect", "failed"} =>
            /\ Completed(t) <=> ~Truthy(interrupt_info[t])
            /\ pc[t] \in {"submit", "input"} <=>
                  Truthy(interrupt_info[t]) /\ IsDict(interrupt_info[t])
            /\ Aborted(t) <=>
                  Truthy(interrupt_info[t]) /\ ~IsDict(interrupt_info[t])
            /\ Truthy(final_result[t])

C2_Witness ==
    \E t \in Threads :
        /\ trace[t].reported /\ Completed(t)
        /\ HasPending(store[t].tasks)

\* C3: when the detected interrupt value is not a map, the loop stops with
\* an UnresolvableInterrupt outcome the caller can tell apart from normal
\* completion (and with no resume command for it).
C3_UnresolvableIsExplicit ==
    \A t \in Threads :
        exit[t] = "unresolvable" =>
            /\ outcome[t].kind = "unresolvable"
            /\ ~ResumePass(t)

\* C4: with an automated-response map that contains the type of the raised
\* interrupt, the loop never waits at the input() prompt for it, the resume
\* command carries exactly the mapped string, and once the engine has raised
\* one such interrupt the loop eventually reaches COMPLETED, unless the
\* engine raises a further interrupt or an exception.
C4_AutoResume ==
    /\ [](\A t \in Threads :
            /\ pc[t] = "input" =>
                  ~HasAutoResponse(auto_responses[t], interrupt_info[t])
            /\ pc[t] = "submit" /\ current_input[t].kind = "resume"
                  /\ HasAutoResponse(auto_responses[t], interrupt_info[t]) =>
                  current_input[t].resume =
                      auto_responses[t].d[InterruptType(interrupt_info[t])])
    /\ \A t \in Threads :
          (/\ pc[t] = "detect" /\ trace[t].single /\ Len(trace[t].raised) = 1
           /\ Truthy(auto_responses[t])
           /\ trace[t].raised[1] \in DOMAIN auto_responses[t].d)
          ~> (\/ Completed(t)
              \/ Failed(t)
              \/ ~trace[t].single
              \/ Len(trace[t].raised) > 1)

C4_Witness ==
    \E t \in Threads :
        /\ Completed(t)
        /\ trace[t].single
        /\ trace[t].raised = <<TypeA>>
        /\ trace[t].answered = <<[type |-> TypeA, response |-> <<" ", "a", Tag(t), " ">>]>>
        /\ passes[t] = 2

\* The response the loop owes to interrupt payload v of run t: the mapped
\* string when auto_responses has the type, else the stripped typed text.
ResponseFor(t, v) ==
    IF HasAutoResponse(auto_responses[t], v)
    THEN AutoResponse(auto_responses[t], v)
    ELSE InteractiveResponse(trace[t].typed)

\* C5: when a run raises typed interrupts one at a time (A, and after the
\* resume for A, B), the i-th resume command answers the i-th interrupt
\* raised, with the response for that interrupt's own type (the mapped
\* string, else a stripped typed text), in the order raised, and no engine
\* pass is started while a raised interrupt is unanswered.
C5_SequencedInterrupts ==
    \A t \in Threads :
        trace[t].single =>
            LET r == trace[t].raised
                a == trace[t].answered
            IN /\ Len(a) <= Len(r) /\ Len(r) <= Len(a) + 1
               /\ \A i \in 1..Len(a) :
                     /\ a[i].type = r[i]
                     /\ IF Truthy(auto_responses[t]) /\ r[i] \in DOMAIN auto_responses[t].d
                        THEN a[i].response = auto_responses[t].d[r[i]]
                        ELSE a[i].response \in { Strip(x) : x \in Typed(t) }
               /\ pc[t] \in {"submit", "stream"} =>
                     /\ Len(a) = Len(r)
                     /\ current_input[t].kind = "resume" <=> Len(a) > 0
                     /\ Len(a) > 0 => current_input[t].resume = a[Len(a)].response
                     /\ passes[t] \in {Len(a), Len(a) + 1}

C5_Witness ==
    \E t \in Threads :
        /\ trace[t].single
        /\ trace[t].raised = <<TypeA, TypeB>>
        /\ Len(trace[t].answered) = 2
        /\ pc[t] = "stream"
        /\ passes[t] = 3

\* C6 (as stated): when the loop hands a resume command to the engine, every
\* interrupt pending in ThreadState after the last pass has been answered;
\* the command answers the one interrupt detection returned, the first.
C6_AllPendingAnswered ==
    \A t \in Threads :
        pc[t] = "submit" /\ current_input[t].kind = "resume" =>
            \A i \in 1..Len(Pending(store[thread_id(t)].tasks)) : i = 1

\* C6 (amended): when the loop hands a resume command to the engine, the
\* first pending interrupt (first interrupt of the first task carrying one)
\* is a non-empty map and has been answered: the command carries the
\* response resolved for it.  Further pending interrupts get no answer.
C6_FirstPendingAnswered ==
    \A t \in Threads :
        pc[t] = "submit" /\ current_input[t].kind = "resume" =>
            LET p == Pending(store[thread_id(t)].tasks)
            IN /\ p # <<>>
               /\ IsDict(p[1].value) /\ Truthy(p[1].value)
               /\ current_input[t].resume = ResponseFor(t, p[1].value)

C6_Witness ==
    \E t \in Threads :
        /\ pc[t] = "submit" /\ current_input[t].kind = "resume"
        /\ Len(Pending(store[thread_id(t)].tasks)) > 1
        /\ Pending(store[thread_id(t)].tasks)[1].value
              # Pending(store[thread_id(t)].tasks)[2].value

\* C7: if no streamed event of the run carried a non-empty final_report but
\* ThreadState.values of the thread contains a final_report once the loop
\* has returned, extraction yields that persisted value.
C7_FallbackExtraction ==
    \A t \in Threads :
        /\ pc[t] = "done"
        /\ final_result[t] = PyNone
        /\ store[thread_id(t)].present
        /\ "final_report" \in DOMAIN store[thread_id(t)].values
        => final_report[t] = PyStr(store[thread_id(t)].values.final_report)

C7_Witness ==
    \E t \in Threads :
        /\ pc[t] = "done" /\ Completed(t)
        /\ final_result[t] = PyNone
        /\ store[thread_id(t)].present
        /\ "final_report" \in DOMAIN store[thread_id(t)].values
        /\ store[thread_id(t)].values.final_report = <<"y", Tag(t)>>
        /\ final_report[t] = PyStr(<<"y", Tag(t)>>)

\* C8: for a run in which no stage emits an interrupt, the final_report the
\* streaming loop and its extraction deliver equals the final_report in the
\* final ThreadState.values, which the plain invocation returns.
C8_SameAsPlainInvocation ==
    \A t \in Threads :
        /\ pc[t] = "done" /\ Completed(t)
        /\ passes[t] = 1
        /\ ~HasPending(store[thread_id(t)].tasks)
        => final_report[t] = InvokeReport(store[thread_id(t)].values)

\* A text produced for another thread_id.
Foreign(s, t) == \E i \in 1..Len(s) : \E u \in Threads \ {t} : s[i] = Tag(u)

TextsOf(v) ==
    IF v.kind = "str" THEN {v.s}
    ELSE IF v.kind \in {"dict", "object"} THEN { v.d[k] : k \in DOMAIN v.d }
    ELSE {}

Own(v, t) == \A s \in TextsOf(v) : ~Foreign(s, t)

\* C9: of two runs driven concurrently on distinct thread_ids, neither ever
\* holds an interrupt payload, a streamed result, a resume response or a
\* final report that stems from the other thread_id.
C9_ThreadIsolation ==
    \A t \in Threads :
        /\ Own(interrupt_info[t], t)
        /\ Own(final_result[t], t)
        /\ Own(final_report[t], t)
        /\ current_input[t].kind = "resume" => ~Foreign(current_input[t].resume, t)
        /\ outcome[t].kind = "return" => Own(outcome[t].value, t)

C9_Witness ==
    /\ \A t \in Threads :
          /\ pc[t] = "stream" /\ passes[t] = 2
          /\ current_input[t].kind = "resume"
          /\ Truthy(final_result[t])
    /\ interrupt_info[1] # interrupt_info[2]

\* C10: an exception raised by the engine during a streaming pass moves the
\* run to FAILED and reaches main as an exception, with no report
\* extracted; from then on the run starts no engine pass, runs no
\* detection, builds no resume command and never turns into a result.
C10_EngineFailureIsTerminal ==
    [][\A t \in Threads :
          /\ exit'[t] = "exception" =>
                /\ pc'[t] = "failed"
                /\ outcome'[t].kind = "raise"
                /\ final_report'[t] = PyNone
          /\ exit[t] = "exception" =>
                /\ passes'[t] = passes[t]
                /\ store'[thread_id(t)] = store[thread_id(t)]
                /\ interrupt_info'[t] = interrupt_info[t]
                /\ current_input'[t] = current_input[t]
                /\ outcome'[t] = outcome[t]]_vars

C10_Witness ==
    \E t \in Threads :
        /\ Failed(t) /\ passes[t] = 2
        /\ outcome[t].kind = "raise"
        /\ current_input[t].kind = "resume"

\* C11: when the engine has no ThreadState for the thread_id, or the
\* ThreadState has no tasks, detection returns None without raising, and
\* the loop then leaves through its completed branch, returning to main
\* without building a resume command.
C11_AbsentStateIsNoInterrupt ==
    [][\A t \in Threads :
          /\ pc[t] = "detect" /\ pc'[t] # "detect"
          /\ \/ ~store[thread_id(t)].present
             \/ store[thread_id(t)].tasks = <<>>
          => /\ interrupt_info'[t] = PyNone
             /\ pc'[t] = "returned" /\ exit'[t] = "completed"
             /\ outcome'[t] = [kind |-> "return", value |-> final_result[t]]
             /\ current_input'[t] = current_input[t]
             /\ passes'[t] = passes[t]]_vars

C11_Witness ==
    \E t \in Threads :
        /\ Completed(t)
        /\ ~store[thread_id(t)].present
        /\ interrupt_info[t] = PyNone
        /\ passes[t] = 1

\* C12: detection scans the tasks of ThreadState in order and returns the
\* value of the first interrupt of the first task that carries a non-empty
\* interrupt list; it returns None exactly when no task carries an
\* interrupt.  The detection result is compared with the thread's tasks,
\* which stay as the pass left them until the next pass starts.
C12_FirstInterruptOrNone ==
    \A t \in Threads :
        pc[t] \in {"submit", "input", "returned", "done"} /\ passes[t] > 0 =>
            LET tasks == store[thread_id(t)].tasks
            IN /\ HasPending(tasks) =>
                      interrupt_info[t] =
                          tasks[FirstCarrying(tasks)].interrupts[1].value
               /\ interrupt_info[t] = PyNone <=> ~HasPending(tasks)

\* C13: the loop leaves through its completed branch only when no task of
\* ThreadState carries a pending interrupt; whenever a task carries one
\* after a pass, whatever its payload, the loop resolves a response or
\* aborts as unresolvable, and never completes.
C13_CompletedOnlyWithoutPending ==
    \A t \in Threads :
        Completed(t) => ~HasPending(store[thread_id(t)].tasks)

\* C14 as stated: the streamed result handed to extraction is the
\* node_output of the last event with a non-empty final_report observed
\* during the final pass of the run, and None when the final pass carried
\* no final_report, whatever an earlier pass streamed.
C14_ResultOfFinalPass ==
    \A t \in Threads :
        outcome[t].kind = "return" =>
            outcome[t].value =
                IF trace[t].reported THEN trace[t].last ELSE PyNone

\* C14, amended: the streamed result handed to extraction is the
\* node_output of the last event with a non-empty final_report observed
\* during any pass of the run; a report streamed before an interrupt and
\* its resume is still returned when the final pass carried none.
C14_ResultOfLastReport ==
    \A t \in Threads :
        /\ outcome[t].kind = "return" => outcome[t].value = trace[t].last
        /\ pc[t] \in {"stream", "detect", "input", "submit"} =>
              final_result[t] = trace[t].last

C14_Witness ==
    \E t \in Threads :
        /\ pc[t] = "done" /\ outcome[t].kind = "return"
        /\ passes[t] = 2
        /\ ~trace[t].reported
        /\ outcome[t].value = PyDict([final_report |-> <<"y", Tag(t)>>])

\* text is typed with its surrounding whitespace removed, and nothing else.
IsTrimOf(text, typed) ==
    /\ text = <<>> \/ (~IsSpace(text[1]) /\ ~IsSpace(text[Len(text)]))
    /\ \E i \in 0..Len(typed) :
          /\ i + Len(text) <= Len(typed)
          /\ \A k \in 1..Len(typed) :
                IF k > i /\ k <= i + Len(text)
                THEN typed[k] = text[k - i]
                ELSE IsSpace(typed[k])

\* C15: for a map-shaped interrupt value, the response placed in the resume
\* command is the string mapped to the interrupt's type in the responses
\* map when responses is supplied and contains that type, a missing type
\* key being looked up as "unknown"; otherwise it is the externally
\* supplied text with its surrounding whitespace removed.
C15_ResponseResolution ==
    \A t \in Threads :
        pc[t] = "submit" /\ current_input[t].kind = "resume" =>
            LET v == interrupt_info[t]
                responses == auto_responses[t]
                type == IF "type" \in DOMAIN v.d THEN v.d.type ELSE Unknown
            IN /\ v.kind = "dict"
               /\ IF responses.kind = "dict" /\ type \in DOMAIN responses.d
                  THEN current_input[t].resume = responses.d[type]
                  ELSE IsTrimOf(current_input[t].resume, trace[t].typed)

C15_Witness ==
    \E t \in Threads :
        /\ pc[t] = "submit" /\ current_input[t].kind = "resume"
        /\ interrupt_info[t] = PyDict([question |-> Question(t)])
        /\ auto_responses[t] # PyNone
        /\ current_input[t].resume = <<"k", Tag(t)>>

\* C16: the run loop and interrupt detection never change the persisted
\* ThreadState themselves: a step of detection, response resolution or
\* result extraction leaves the values and tasks of every thread as they
\* were, and the state of a thread changes only in a step of an engine
\* pass of that thread, entered with the fresh input or a resume command.
C16_StoreChangesOnlyInPasses ==
    [][\A t \in Threads :
          /\ pc[t] \in {"detect", "input", "returned"} /\ pc'[t] # pc[t]
                => store' = store
          /\ store'[thread_id(t)] # store[thread_id(t)]
                => /\ pc[t] \in {"submit", "stream"}
                   /\ pc'[t] \in {"stream", "detect"}
                   /\ current_input[t].kind \in {"fresh", "resume"}]_vars

C16_Witness ==
    \E t \in Threads :
        /\ pc[t] = "done" /\ exit[t] = "unresolvable"
        /\ passes[t] = 2
        /\ HasPending(store[thread_id(t)].tasks)
        /\ "final_report" \in DOMAIN store[thread_id(t)].values

\* C17: in every execution of the run loop the fresh initial input is
\* submitted to the engine exactly once, on the first pass; the input of
\* every later pass is a resume command carrying the response resolved for
\* the interrupt detected immediately before that pass.
C17_FreshInputOnce ==
    \A t \in Threads :
        /\ pc[t] = "submit" => (current_input[t] = Fresh <=> passes[t] = 0)
        /\ pc[t] = "stream" => (current_input[t] = Fresh <=> passes[t] = 1)
        /\ pc[t] \in {"submit", "stream"} /\ current_input[t] # Fresh =>
              /\ current_input[t].kind = "resume"
              /\ Truthy(interrupt_info[t]) /\ IsDict(interrupt_info[t])
              /\ current_input[t].resume = ResponseFor(t, interrupt_info[t])

C17_Witness ==
    \E t \in Threads :
        /\ pc[t] = "stream" /\ passes[t] = 3
        /\ current_input[t].kind = "resume"
        /\ current_input[t].resume = <<"u", Tag(t)>>

\* The loop waits at the input() prompt for an interrupt that has no
\* matching automated response.
WaitsWithoutAutoResponse(t) ==
    /\ AwaitingInput(t)
    /\ Truthy(interrupt_info[t]) /\ IsDict(interrupt_info[t])
    /\ ~HasAutoResponse(auto_responses[t], interrupt_info[t])

\* C18: under fairness of the loop's steps, with every engine pass finite
\* and the engine raising finitely many interrupts, a run that is started
\* eventually reaches a terminal state (completed, failed or the
\* unresolvable abort) unless it comes to wait for an interrupt that has no
\* matching automated response; the loop itself never refuses a further
\* resume pass.
C18_EventuallyTerminal ==
    /\ \A t \in Threads :
          (pc[t] = "submit" /\ passes[t] = 0)
          ~> (Completed(t) \/ Failed(t) \/ Aborted(t)
              \/ WaitsWithoutAutoResponse(t))
    /\ [][\A t \in Threads :
             /\ pc[t] = "detect" /\ pc'[t] # "detect"
             /\ Truthy(interrupt_info'[t]) /\ IsDict(interrupt_info'[t])
             /\ HasAutoResponse(auto_responses[t], interrupt_info'[t])
             => /\ pc'[t] = "submit"
                /\ current_input'[t].kind = "resume"]_vars

C18_Witness ==
    \E t \in Threads :
        /\ Completed(t)
        /\ passes[t] = MaxPasses
        /\ Truthy(auto_responses[t])
        /\ trace[t].typed = <<>>
        /\ Len(trace[t].answered) = MaxPasses - 1

\* C19: in every reachable state the tracked final result is either None or
\* a node_output map whose final_report is non-empty (and so is the result
\* main receives); once it holds a map it is never reset to None, and it is
\* only ever replaced, while a pass is streaming, by the map of the event
\* just observed, which also has a non-empty final_report.
C19_TrackedResult ==
    /\ [](\A t \in Threads :
            /\ final_result[t] = PyNone \/ CarriesReport(final_result[t])
            /\ outcome[t].kind = "return" =>
                  outcome[t].value = PyNone \/ CarriesReport(outcome[t].value))
    /\ [][\A t \in Threads :
             /\ final_result[t] # PyNone => final_result'[t] # PyNone
             /\ final_result'[t] # final_result[t] =>
                   /\ pc[t] = "stream" /\ pc'[t] = "stream"
                   /\ final_result'[t] \in Outputs(t)
                   /\ CarriesReport(final_result'[t])
                   /\ final_result'[t] = trace'[t].last]_vars

C19_Witness ==
    \E t \in Threads :
        /\ final_result[t] = PyDict([final_report |-> <<"y", Tag(t)>>])
        /\ trace[t].reported
        /\ passes[t] = 2
        /\ "final_report" \in DOMAIN store[thread_id(t)].values
        /\ store[thread_id(t)].values.final_report = <<>>

====
